---- MODULE Spec2Model ----
(***************************************************************************)
(* Model of the application service (webserver/): the file-tree builder    *)
(* ProjectService.buildFileStructure, the file-listing path                *)
(* GET /project_files -> ProjectService.listFiles, and the pagination      *)
(* window the route reads from req.pagination.                             *)
(***************************************************************************)
EXTENDS Integers, Sequences, FiniteSets, TLC

VARIABLES
    files,      \* ProjectFile[] handed to buildFileStructure
    tree,       \* what buildFileStructure returned (or NoTree)
    pc,         \* position of the builder run: "input" | "built"
    store,      \* the project service's file records of the project
    request,    \* GET /project_files being served: its pagination window
    sent,       \* params of the axios.get listFiles has in flight
    upstream,   \* the project service's answer to that call
    envelope,   \* the JSON the route answered with
    linkTotal,  \* total handed to generateHATEOASLinks
    lpc,        \* position of the route handler
    rawLimit,   \* req.query.limit as received
    rawOffset,  \* req.query.offset as received
    pagination, \* req.pagination
    ppc,        \* position of the pagination step
    ltotal,     \* link builder: total of the collection being paged
    llimit,     \* link builder: limit of the current page
    loffset,    \* link builder: offset of the current page
    links,      \* the link set of the current page
    trail,      \* offsets of the pages visited from offset 0 by next links
    clock,      \* the time, in seconds
    token,      \* the user service's token record (or None)
    areq,       \* the request the application is serving
    apc,        \* position of that request in the middleware chain
    fetched,    \* the user service's answer to verifyToken's axios.get
    userId,     \* req.userId
    responses,  \* the responses sent for the request
    nextCalls,  \* how often authMiddleware called next()
    calls,      \* the calls made to the project service for the request
    deletes,    \* the token deletes issued to the user service
    deleted,    \* how the delete request verifyToken issued has settled, if any
    inflight,   \* two listFiles calls: where each stands and what it holds
    builds,     \* the forests built so far in this process
    users,      \* the users the user service holds
    lreq,       \* the body of the POST /users/login request, or None
    lgpc,       \* where the login handler stands
    found,      \* what findUserByUserName settled with
    tokens,     \* the tokens the user service created, each with the status answered
    lresp,      \* the responses the login handler sent
    ucalls,     \* the calls the login handler made to the user service, in order
    rreq,       \* the request a project or file route handler is serving, or None
    rpc,        \* where that handler stands
    rcalls,     \* the calls it made to the project service, in order
    ranswer,    \* how the project service answered, or None
    rresp,      \* the responses the handler sent
    emails,     \* the email the user service holds for each user
    mreq,       \* the body of the POST /project/created request, or None
    mpc,        \* where the notification handler stands
    mcalls,     \* getUserEmail and sendEmail invocations, in order
    mresp       \* the responses the notification handler sent

treeVars == <<files, tree, pc>>
listVars == <<store, request, sent, upstream, envelope, linkTotal, lpc>>
pageVars == <<rawLimit, rawOffset, pagination, ppc>>
linkVars == <<ltotal, llimit, loffset, links, trail>>
appVars == <<clock, token, areq, apc, fetched, userId, responses, nextCalls, calls,
            deletes, deleted>>
twoVars == <<inflight, builds>>
loginVars == <<users, lreq, lgpc, found, tokens, lresp, ucalls>>
routeVars == <<rreq, rpc, rcalls, ranswer, rresp>>
mailVars == <<emails, mreq, mpc, mcalls, mresp>>
vars == <<files, tree, pc, store, request, sent, upstream, envelope, linkTotal,
          lpc, rawLimit, rawOffset, pagination, ppc, ltotal, llimit, loffset, links,
          trail, clock, token, areq, apc, fetched, userId, responses, nextCalls,
          calls, deletes, deleted, inflight, builds, users, lreq, lgpc,
          found, tokens, lresp, ucalls, rreq, rpc, rcalls, ranswer, rresp, emails,
          mreq, mpc, mcalls, mresp>>

(***************************************************************************)
(* Bounds of the model.                                                    *)
(***************************************************************************)
MaxLen == 3
FileIds == {0, 1, 2}
FileNames == {"a", "b"}

(***************************************************************************)
(* Values.                                                                 *)
(***************************************************************************)
\* ParentDirectory: number | null
Null == -1
\* what Map.get answers for a key the map does not hold
Undefined == 0
None == [kind |-> "none"]
NoTree == [kind |-> "none"]

\* a ProjectFile as buildFileStructure reads it: FileID, ParentDirectory and
\* FileName (it reads no other field)
ProjectFile ==
    [FileID : FileIds, ParentDirectory : {Null} \cup FileIds, FileName : FileNames]

\* `if (file.ParentDirectory)`: null and 0 are falsy
Truthy(v) == v # Null /\ v # 0

(***************************************************************************)
(* Map<K, V> as the sequence of its entries in insertion order.            *)
(***************************************************************************)
NewMap == <<>>

MapHas(m, k) == \E i \in DOMAIN m : m[i].key = k

MapGet(m, k) ==
    IF MapHas(m, k) THEN m[CHOOSE i \in DOMAIN m : m[i].key = k].value
    ELSE Undefined

\* Map.set: an existing key keeps its place and takes the new value
MapSet(m, k, v) ==
    IF MapHas(m, k)
    THEN [i \in DOMAIN m |-> IF m[i].key = k THEN [key |-> k, value |-> v] ELSE m[i]]
    ELSE Append(m, [key |-> k, value |-> v])

MapValues(m) == {m[i].value : i \in DOMAIN m}

(***************************************************************************)
(* ProjectService.buildFileStructure.  A node is named by the index of the *)
(* record it was created for: the first forEach creates node i for fs[i]   *)
(* with an empty children map and files it under fs[i].FileID.             *)
(***************************************************************************)
RECURSIVE FillFileMap(_, _, _)
FillFileMap(fs, i, fileMap) ==
    IF i > Len(fs) THEN fileMap
    ELSE FillFileMap(fs, i + 1, MapSet(fileMap, fs[i].FileID, i))

\* LinkFile with the `if (parent)` test left out
LinkFileUnguarded(fs, i, fileMap, st) ==
    LET file == fs[i]
        self == MapGet(fileMap, file.FileID)
    IN  IF st.threw THEN st
        ELSE IF Truthy(file.ParentDirectory)
        THEN LET parent == MapGet(fileMap, file.ParentDirectory)
             IN  IF parent # Undefined
                 THEN [st EXCEPT !.children[parent] = MapSet(@, file.FileName, self)]
                 ELSE [st EXCEPT !.threw = TRUE]
        ELSE [st EXCEPT !.rootFiles = Append(@, self)]

\* LinkFile with the push to rootFiles outside the else branch
LinkFileAlwaysRoot(fs, i, fileMap, st) ==
    LET file == fs[i]
        self == MapGet(fileMap, file.FileID)
        pushed == [st EXCEPT !.rootFiles = Append(@, self)]
    IN  IF st.threw THEN st
        ELSE IF Truthy(file.ParentDirectory)
        THEN LET parent == MapGet(fileMap, file.ParentDirectory)
             IN  IF parent # Undefined
                 THEN [pushed EXCEPT !.children[parent] = MapSet(@, file.FileName, self)]
                 ELSE pushed
        ELSE pushed

\* LinkFile with unshift in place of push
LinkFileUnshift(fs, i, fileMap, st) ==
    LET file == fs[i]
        self == MapGet(fileMap, file.FileID)
    IN  IF st.threw THEN st
        ELSE IF Truthy(file.ParentDirectory)
        THEN LET parent == MapGet(fileMap, file.ParentDirectory)
             IN  IF parent # Undefined
                 THEN [st EXCEPT !.children[parent] = MapSet(@, file.FileName, self)]
                 ELSE st
        ELSE [st EXCEPT !.rootFiles = <<self>> \o @]

\* one call of the second forEach's callback, for fs[i]
LinkFile(fs, i, fileMap, st) ==
    LET file == fs[i]
        self == MapGet(fileMap, file.FileID)
    IN  IF st.threw THEN st
        ELSE IF Truthy(file.ParentDirectory)
        THEN LET parent == MapGet(fileMap, file.ParentDirectory)
             IN  IF parent # Undefined
                 THEN [st EXCEPT !.children[parent] = MapSet(@, file.FileName, self)]
                 ELSE st
        ELSE [st EXCEPT !.rootFiles = Append(@, self)]

RECURSIVE LinkFiles(_, _, _, _)
LinkFiles(fs, i, fileMap, st) ==
    IF i > Len(fs) THEN st
    ELSE LinkFiles(fs, i + 1, fileMap, LinkFile(fs, i, fileMap, st))

EmptyForest(fs) ==
    [children |-> [n \in 1..Len(fs) |-> NewMap], rootFiles |-> <<>>, threw |-> FALSE]

\* buildFileStructure with a single forEach that files each node as it links it
RECURSIVE OnePass(_, _, _, _)
OnePass(fs, i, fileMap, st) ==
    IF i > Len(fs) THEN st
    ELSE LET seen == MapSet(fileMap, fs[i].FileID, i)
         IN  OnePass(fs, i + 1, seen, LinkFile(fs, i, seen, st))

buildFileStructureOnePass(fs) ==
    LET st == OnePass(fs, 1, NewMap, EmptyForest(fs))
    IN  [kind |-> IF st.threw THEN "threw" ELSE "returned",
         rootFiles |-> st.rootFiles, children |-> st.children]

buildFileStructure(fs) ==
    LET fileMap == FillFileMap(fs, 1, NewMap)
        st == LinkFiles(fs, 1, fileMap, EmptyForest(fs))
    IN  [kind |-> IF st.threw THEN "threw" ELSE "returned",
         rootFiles |-> st.rootFiles, children |-> st.children]

(***************************************************************************)
(* The builder run on its own: a batch arrives record by record, then      *)
(* buildFileStructure is called on it.                                     *)
(***************************************************************************)
ListIdle ==
    /\ store = <<>>
    /\ request = None
    /\ sent = None
    /\ upstream = None
    /\ envelope = None
    /\ linkTotal = Null
    /\ lpc = "idle"

PageIdle ==
    /\ rawLimit = None
    /\ rawOffset = None
    /\ pagination = None
    /\ ppc = "idle"

TreeIdle ==
    /\ files = <<>>
    /\ tree = NoTree
    /\ pc = "idle"

LinkIdle ==
    /\ ltotal = 0
    /\ llimit = 1
    /\ loffset = 0
    /\ links = None
    /\ trail = <<>>

AppIdle ==
    /\ clock = 0
    /\ token = None
    /\ areq = None
    /\ apc = "off"
    /\ fetched = None
    /\ userId = None
    /\ responses = <<>>
    /\ nextCalls = 0
    /\ calls = <<>>
    /\ deletes = 0
    /\ deleted = "none"

TwoIdle ==
    /\ inflight = <<>>
    /\ builds = <<>>

LoginIdle ==
    /\ users = {}
    /\ lreq = None
    /\ lgpc = "off"
    /\ found = None
    /\ tokens = <<>>
    /\ lresp = <<>>
    /\ ucalls = <<>>

RouteIdle ==
    /\ rreq = None
    /\ rpc = "off"
    /\ rcalls = <<>>
    /\ ranswer = None
    /\ rresp = <<>>

MailIdle ==
    /\ emails = <<>>
    /\ mreq = None
    /\ mpc = "off"
    /\ mcalls = <<>>
    /\ mresp = <<>>

InitTree ==
    /\ files = <<>>
    /\ tree = NoTree
    /\ pc = "input"
    /\ ListIdle
    /\ PageIdle
    /\ LinkIdle
    /\ AppIdle
    /\ TwoIdle
    /\ LoginIdle
    /\ RouteIdle
    /\ MailIdle

\* the caller's array gets one more record
AddFile(file) ==
    /\ pc = "input"
    /\ Len(files) < MaxLen
    /\ files' = Append(files, file)
    /\ UNCHANGED <<tree, pc, listVars, pageVars, linkVars, appVars, twoVars, loginVars, routeVars, mailVars>>

BuildFileStructure ==
    /\ pc = "input"
    /\ tree' = buildFileStructure(files)
    /\ pc' = "built"
    /\ UNCHANGED <<files, listVars, pageVars, linkVars, appVars, twoVars, loginVars, routeVars, mailVars>>

NextTree ==
    \/ \E file \in ProjectFile : AddFile(file)
    \/ BuildFileStructure

SpecTree == InitTree /\ [][NextTree]_vars

(***************************************************************************)
(* Reading a returned forest.                                              *)
(***************************************************************************)
Built == pc = "built"

Returned == Built /\ tree.kind = "returned"

UniqueIds(fs) ==
    \A i, j \in DOMAIN fs : i # j => fs[i].FileID # fs[j].FileID

Range(f) == {f[i] : i \in DOMAIN f}

\* the nodes one step below the nodes of S
Below(t, S) == UNION {MapValues(t.children[n]) : n \in S}

RECURSIVE Closure(_, _)
Closure(t, S) ==
    LET more == S \cup Below(t, S)
    IN  IF more = S THEN S ELSE Closure(t, more)

\* every node that can be reached from the returned roots
Reachable(t) == Closure(t, Range(t.rootFiles))

\* every node below n, at any depth
Descendants(t, n) == Closure(t, Below(t, {n}))

\* the record with a parent reference that no record of the batch answers to
Orphan(fs, i) ==
    /\ fs[i].ParentDirectory # Null
    /\ \A j \in DOMAIN fs : fs[j].FileID # fs[i].ParentDirectory

\* records i < j are siblings of parent record p carrying the same name
SameNameSiblings(fs, p, i, j) ==
    /\ i < j
    /\ fs[i].ParentDirectory = fs[p].FileID
    /\ fs[j].ParentDirectory = fs[p].FileID
    /\ fs[i].FileName = fs[j].FileName

(***************************************************************************)
(* C1: for a batch with unique ids buildFileStructure returns, and the     *)
(* nodes reachable from the returned roots are as many as the input        *)
(* records: no record is dropped.                                          *)
(***************************************************************************)
C1_NoRecordDropped ==
    (Built /\ UniqueIds(files)) =>
        /\ tree.kind = "returned"
        /\ Cardinality(Reachable(tree)) = Len(files)

(***************************************************************************)
(* C2: a record whose parent reference is non-null and matches no id of    *)
(* the batch is one of the returned roots, and the call does not throw.    *)
(***************************************************************************)
C2_OrphanIsRoot ==
    (Built /\ UniqueIds(files)) =>
        \A i \in DOMAIN files :
            Orphan(files, i) =>
                /\ tree.kind = "returned"
                /\ i \in Range(tree.rootFiles)

(***************************************************************************)
(* C5: of the sibling records that share a parent present in the batch and *)
(* a name, the parent's children map holds exactly one entry under that    *)
(* name and it is the node of the one that comes last in the input.        *)
(***************************************************************************)
C5_LastWriteWins ==
    (Built /\ UniqueIds(files)) =>
        \A p, i, j \in DOMAIN files :
            ( /\ SameNameSiblings(files, p, i, j)
              /\ \A k \in DOMAIN files : ~SameNameSiblings(files, p, j, k) ) =>
                /\ tree.kind = "returned"
                /\ Cardinality({e \in DOMAIN tree.children[p] :
                        tree.children[p][e].key = files[j].FileName}) = 1
                /\ MapGet(tree.children[p], files[j].FileName) = j

(***************************************************************************)
(* The shape of a returned forest, in terms of the records: the ids of the *)
(* root records and the (parent id, child id) pairs of the links that can  *)
(* be reached from the roots.                                              *)
(***************************************************************************)
RootIds(fs, t) == {fs[n].FileID : n \in Range(t.rootFiles)}

LinkIds(fs, t) ==
    {<<fs[n].FileID, fs[c].FileID>> :
        <<n, c>> \in {pr \in Reachable(t) \X DOMAIN fs :
                        pr[2] \in MapValues(t.children[pr[1]])}}

Shape(fs, t) == [kind |-> t.kind, roots |-> RootIds(fs, t), links |-> LinkIds(fs, t)]

\* the batch fs in the order pi
Permuted(fs, pi) == [i \in DOMAIN fs |-> fs[pi[i]]]

SameShapeInAnyOrder(fs) ==
    \A pi \in Permutations(DOMAIN fs) :
        Shape(Permuted(fs, pi), buildFileStructure(Permuted(fs, pi)))
            = Shape(fs, buildFileStructure(fs))

\* no two records with the same non-null parent reference carry the same name
DistinctSiblingNames(fs) ==
    \A i, j \in DOMAIN fs :
        (i # j /\ fs[i].ParentDirectory # Null
               /\ fs[i].ParentDirectory = fs[j].ParentDirectory) =>
            fs[i].FileName # fs[j].FileName

(***************************************************************************)
(* C6 as stated: for a batch with unique ids, every permutation of the     *)
(* batch builds a forest of the same shape (same root records, same        *)
(* parent/child pairs).                                                    *)
(***************************************************************************)
C6_SameShapeInAnyOrder ==
    (Returned /\ UniqueIds(files)) =>
        /\ Shape(files, tree) = Shape(files, buildFileStructure(files))
        /\ SameShapeInAnyOrder(files)

(***************************************************************************)
(* C6 amended: for a batch with unique ids in which no two records with    *)
(* the same non-null parent reference share a name, every permutation of   *)
(* the batch builds a forest of the same shape.                            *)
(***************************************************************************)
C6_SameShapeInAnyOrderDistinctNames ==
    (Returned /\ UniqueIds(files) /\ DistinctSiblingNames(files)) =>
        /\ Shape(files, tree) = Shape(files, buildFileStructure(files))
        /\ SameShapeInAnyOrder(files)

\* a built batch of three records with distinct sibling names in which a child
\* comes before its parent and is linked under it
C6_Witness ==
    /\ Returned
    /\ UniqueIds(files)
    /\ DistinctSiblingNames(files)
    /\ Len(files) = MaxLen
    /\ \E c, q \in DOMAIN files :
        /\ c < q
        /\ files[c].ParentDirectory = files[q].FileID
        /\ c \in MapValues(tree.children[q])
        /\ q \in Range(tree.rootFiles)

(***************************************************************************)
(* C7: buildFileStructure throws for no batch, whatever its anomalies      *)
(* (a record that is its own parent, parent cycles, duplicate ids,         *)
(* unresolved parents), and the empty batch gives the empty forest.        *)
(***************************************************************************)
C7_NeverThrows ==
    Built =>
        /\ tree.kind = "returned"
        /\ (files = <<>> => tree.rootFiles = <<>>)

\* a built batch holding a record that is its own parent, two records with the
\* same id and a record whose parent is not in the batch
C7_Witness ==
    /\ Built
    /\ \E i \in DOMAIN files :
        Truthy(files[i].ParentDirectory) /\ files[i].ParentDirectory = files[i].FileID
    /\ ~UniqueIds(files)
    /\ \E i \in DOMAIN files : Truthy(files[i].ParentDirectory) /\ Orphan(files, i)

(***************************************************************************)
(* C8: for a batch with unique ids the returned structure is a forest:     *)
(* every node occurs in it at most once (once among the roots or once as   *)
(* the child of one parent, never both, never under two parents) and no    *)
(* node of it is reachable from itself through children.                   *)
(***************************************************************************)
Occurrences(t, n) ==
    Cardinality({k \in DOMAIN t.rootFiles : t.rootFiles[k] = n})
    + Cardinality({pe \in Reachable(t) \X (1..Len(t.children)) :
                     /\ pe[2] \in DOMAIN t.children[pe[1]]
                     /\ t.children[pe[1]][pe[2]].value = n})

C8_Forest ==
    (Built /\ UniqueIds(files)) =>
        /\ tree.kind = "returned"
        /\ \A n \in DOMAIN files : Occurrences(tree, n) <= 1
        /\ \A n \in Reachable(tree) : n \notin Descendants(tree, n)

\* a built batch with unique ids holding a root with a linked child next to a
\* record that is its own parent
C8_Witness ==
    /\ Returned
    /\ UniqueIds(files)
    /\ \E r, c \in DOMAIN files :
        /\ r \in Range(tree.rootFiles)
        /\ c \in MapValues(tree.children[r])
    /\ \E i \in DOMAIN files : i \in MapValues(tree.children[i])

C17_ChildUnderParent ==
    (Built /\ UniqueIds(files) /\ DistinctSiblingNames(files)) =>
        \A r, p \in DOMAIN files :
            files[r].ParentDirectory = files[p].FileID =>
                /\ tree.kind = "returned"
                /\ MapGet(tree.children[p], files[r].FileName) = r
                /\ Descendants(tree, r) \subseteq Descendants(tree, p)

(***************************************************************************)
(* GET /project_files: the route handler, ProjectService.listFiles and the *)
(* project service that answers it.  A data item is held as the record     *)
(* JSON.parse makes of it.                                                 *)
(***************************************************************************)
MaxStore == 3
MaxLimit == 2
MaxOffset == 2
\* `limit: 100, // Adjust limit as needed`
FetchLimit == 100

Min(a, b) == IF a < b THEN a ELSE b

\* the records of the project from position offset on, limit of them at most
Page(recs, limit, offset) == SubSeq(recs, offset + 1, Min(offset + limit, Len(recs)))

\* the params of the axios.get of listFiles(userId, ProjectID, limit, offset, uid)
listFilesParams(limit, offset) == [limit |-> FetchLimit, offset |-> offset]

\* what listFiles returns for a 200 answer
listFilesResult(response) ==
    LET parsed == response.data
    IN  [total |-> Len(parsed), files |-> buildFileStructure(parsed), parsed |-> parsed]

InitList ==
    /\ store = <<>>
    /\ request = None
    /\ sent = None
    /\ upstream = None
    /\ envelope = None
    /\ linkTotal = Null
    /\ lpc = "idle"
    /\ TreeIdle
    /\ PageIdle
    /\ LinkIdle
    /\ AppIdle
    /\ TwoIdle
    /\ LoginIdle
    /\ RouteIdle
    /\ MailIdle

\* the project service stores one more file of the project, under a fresh id
StoreInsert(file) ==
    /\ lpc = "idle"
    /\ Len(store) < MaxStore
    /\ \A i \in DOMAIN store : store[i].FileID # file.FileID
    /\ store' = Append(store, file)
    /\ UNCHANGED <<request, sent, upstream, envelope, linkTotal, lpc, treeVars, pageVars, linkVars, appVars, twoVars, loginVars, routeVars, mailVars>>

\* the handler, for a query without ProjectID
GetFilesNoProject ==
    /\ lpc = "idle"
    /\ request' = [kind |-> "get", ProjectID |-> FALSE]
    /\ envelope' = [kind |-> "json", status |-> 400, message |-> "ProjectID is required"]
    /\ lpc' = "responded"
    /\ UNCHANGED <<store, sent, upstream, linkTotal, treeVars, pageVars, linkVars, appVars, twoVars, loginVars, routeVars, mailVars>>

\* the handler up to the await of listFiles' axios.get
GetFiles(limit, offset) ==
    /\ lpc = "idle"
    /\ request' = [kind |-> "get", ProjectID |-> TRUE, limit |-> limit, offset |-> offset]
    /\ sent' = listFilesParams(limit, offset)
    /\ lpc' = "awaiting"
    /\ UNCHANGED <<store, upstream, envelope, linkTotal, treeVars, pageVars, linkVars, appVars, twoVars, loginVars, routeVars, mailVars>>

\* the project service answers with the page asked for and its count of the
\* project's files
StoreAnswers ==
    /\ lpc = "awaiting"
    /\ upstream' = [status |-> 200, total |-> Len(store),
                    data |-> Page(store, sent.limit, sent.offset)]
    /\ lpc' = "answered"
    /\ UNCHANGED <<store, request, sent, envelope, linkTotal, treeVars, pageVars, linkVars, appVars, twoVars, loginVars, routeVars, mailVars>>

\* the call fails, or is answered with another status
StoreFails(status) ==
    /\ lpc = "awaiting"
    /\ upstream' = [status |-> status]
    /\ lpc' = "answered"
    /\ UNCHANGED <<store, request, sent, envelope, linkTotal, treeVars, pageVars, linkVars, appVars, twoVars, loginVars, routeVars, mailVars>>

\* listFiles after its await, and the rest of the handler
FilesListed ==
    /\ lpc = "answered"
    /\ upstream.status = 200
    /\ LET result == listFilesResult(upstream)
       IN  /\ files' = result.parsed
           /\ tree' = result.files
           /\ IF result.files.kind = "returned"
              THEN /\ linkTotal' = result.total
                   /\ envelope' = [kind |-> "json", status |-> 200,
                                   total |-> result.total, limit |-> request.limit,
                                   offset |-> request.offset, data |-> result.files]
              ELSE /\ linkTotal' = linkTotal
                   /\ envelope' = [kind |-> "json", status |-> 500,
                                   message |-> "Internal server error"]
    /\ lpc' = "responded"
    /\ UNCHANGED <<store, request, sent, upstream, pc, pageVars, linkVars, appVars, twoVars, loginVars, routeVars, mailVars>>

\* listFiles throws, the handler's catch answers
FilesFailed ==
    /\ lpc = "answered"
    /\ upstream.status # 200
    /\ envelope' = [kind |-> "json", status |-> 500, message |-> "Internal server error"]
    /\ lpc' = "responded"
    /\ UNCHANGED <<store, request, sent, upstream, linkTotal, treeVars, pageVars, linkVars, appVars, twoVars, loginVars, routeVars, mailVars>>

NextList ==
    \/ \E file \in ProjectFile : StoreInsert(file)
    \/ GetFilesNoProject
    \/ \E limit \in 1..MaxLimit, offset \in 0..MaxOffset : GetFiles(limit, offset)
    \/ StoreAnswers
    \/ \E status \in {204, 500} : StoreFails(status)
    \/ FilesListed
    \/ FilesFailed

SpecList == InitList /\ [][NextList]_vars

Listed == lpc = "responded" /\ envelope.status = 200

(***************************************************************************)
(* C3: the total of the response envelope, which is also the total handed  *)
(* to the link builder, is the count the project service reported.         *)
(***************************************************************************)
C3_TotalIsStoreCount ==
    Listed =>
        /\ envelope.total = upstream.total
        /\ linkTotal = upstream.total

(***************************************************************************)
(* C4: the limit and offset sent to the project service are the limit and  *)
(* offset of the request, and the records held by the response's data are  *)
(* no more than the limit the response reports.                            *)
(***************************************************************************)
C4_WindowForwarded ==
    Listed =>
        /\ sent.limit = request.limit
        /\ sent.offset = request.offset
        /\ Cardinality(Reachable(envelope.data)) <= envelope.limit

(***************************************************************************)
(* The pagination window of a request (middleware/pagination.ts): the raw  *)
(* query values limit and offset, each missing or a string of characters,  *)
(* and the window computed from them.                                      *)
(***************************************************************************)
MaxRawLen == 3
DefaultLimit == 25
Chars == {"-", "0", "1", "5", "a"}
Digits == {"0", "1", "2", "3", "4", "5", "6", "7", "8", "9"}

DigitValue(c) ==
    CASE c = "0" -> 0 [] c = "1" -> 1 [] c = "2" -> 2 [] c = "3" -> 3 [] c = "4" -> 4
      [] c = "5" -> 5 [] c = "6" -> 6 [] c = "7" -> 7 [] c = "8" -> 8 [] c = "9" -> 9

RECURSIVE DecimalValue(_)
DecimalValue(ds) ==
    IF ds = <<>> THEN 0
    ELSE 10 * DecimalValue(SubSeq(ds, 1, Len(ds) - 1)) + DigitValue(ds[Len(ds)])

NaN == [nan |-> TRUE, value |-> 0]

\* parse a string as an integer: an optional sign, then the digits up to the
\* first character that is none; NaN when there is no digit
ParseInt(str) ==
    LET signed == str # <<>> /\ str[1] \in {"-", "+"}
        body == IF signed THEN Tail(str) ELSE str
        n == CHOOSE k \in 0..Len(body) :
                /\ \A i \in 1..k : body[i] \in Digits
                /\ (k < Len(body) => body[k + 1] \notin Digits)
        magnitude == DecimalValue(SubSeq(body, 1, n))
    IN  IF n = 0 THEN NaN
        ELSE [nan |-> FALSE,
              value |-> IF signed /\ str[1] = "-" THEN 0 - magnitude ELSE magnitude]

ParseQuery(raw) == IF raw = None THEN NaN ELSE ParseInt(raw.text)

\* compute with a limit of zero let through
computeZeroLimit(rawL, rawO) ==
    LET l == ParseQuery(rawL)
        o == ParseQuery(rawO)
    IN  [kind |-> "window",
         limit |-> IF l.nan \/ l.value < 0 THEN DefaultLimit ELSE l.value,
         offset |-> IF o.nan \/ o.value < 0 THEN 0 ELSE o.value]

\* PaginationCalculator.compute(rawLimit, rawOffset)
compute(rawL, rawO) ==
    LET l == ParseQuery(rawL)
        o == ParseQuery(rawO)
    IN  [kind |-> "window",
         limit |-> IF l.nan \/ l.value <= 0 THEN DefaultLimit ELSE l.value,
         offset |-> IF o.nan \/ o.value < 0 THEN 0 ELSE o.value]

InitPage ==
    /\ rawLimit = None
    /\ rawOffset = None
    /\ pagination = None
    /\ ppc = "query"
    /\ TreeIdle
    /\ ListIdle
    /\ LinkIdle
    /\ AppIdle
    /\ TwoIdle
    /\ LoginIdle
    /\ RouteIdle
    /\ MailIdle

\* the query string carries one more character of limit (or limit at all)
LimitChar(c) ==
    /\ ppc = "query"
    /\ IF rawLimit = None
       THEN rawLimit' = [kind |-> "text", text |-> <<>>]
       ELSE /\ Len(rawLimit.text) < MaxRawLen
            /\ rawLimit' = [rawLimit EXCEPT !.text = Append(@, c)]
    /\ UNCHANGED <<rawOffset, pagination, ppc, treeVars, listVars, linkVars, appVars, twoVars, loginVars, routeVars, mailVars>>

OffsetChar(c) ==
    /\ ppc = "query"
    /\ IF rawOffset = None
       THEN rawOffset' = [kind |-> "text", text |-> <<>>]
       ELSE /\ Len(rawOffset.text) < MaxRawLen
            /\ rawOffset' = [rawOffset EXCEPT !.text = Append(@, c)]
    /\ UNCHANGED <<rawLimit, pagination, ppc, treeVars, listVars, linkVars, appVars, twoVars, loginVars, routeVars, mailVars>>

\* the request arrives: req.pagination is computed
Paginate ==
    /\ ppc = "query"
    /\ pagination' = compute(rawLimit, rawOffset)
    /\ ppc' = "done"
    /\ UNCHANGED <<rawLimit, rawOffset, treeVars, listVars, linkVars, appVars, twoVars, loginVars, routeVars, mailVars>>

NextPage ==
    \/ \E c \in Chars : LimitChar(c)
    \/ \E c \in Chars : OffsetChar(c)
    \/ Paginate

SpecPage == InitPage /\ [][NextPage]_vars

\* the raw value is a number written out: digits only, at least one
AllDigits(raw) ==
    /\ raw # None
    /\ raw.text # <<>>
    /\ \A i \in DOMAIN raw.text : raw.text[i] \in Digits

\* the raw value is a minus sign before a number written out
MinusNumber(raw) ==
    /\ raw # None
    /\ Len(raw.text) >= 2
    /\ raw.text[1] = "-"
    /\ \A i \in 2..Len(raw.text) : raw.text[i] \in Digits

\* the raw value does not start as a number
NonNumeric(raw) ==
    /\ raw # None
    /\ \/ raw.text = <<>>
       \/ raw.text[1] \notin Digits \cup {"-", "+"}
       \/ /\ raw.text[1] \in {"-", "+"}
          /\ (Len(raw.text) = 1 \/ raw.text[2] \notin Digits)

(***************************************************************************)
(* C10: compute always returns a window with limit >= 1 and offset >= 0;   *)
(* limit is the client's number when that is positive and 25 when the raw  *)
(* value is missing, non-numeric, zero or negative; offset is the client's *)
(* number when that is not negative and 0 when the raw value is missing,   *)
(* non-numeric or negative.                                                *)
(***************************************************************************)
C10_PaginationWindow ==
    ppc = "done" =>
        /\ pagination.kind = "window"
        /\ pagination.limit \in Nat /\ pagination.limit >= 1
        /\ pagination.offset \in Nat
        /\ (AllDigits(rawLimit) /\ DecimalValue(rawLimit.text) > 0) =>
                pagination.limit = DecimalValue(rawLimit.text)
        /\ ( \/ rawLimit = None
             \/ NonNumeric(rawLimit)
             \/ MinusNumber(rawLimit)
             \/ (AllDigits(rawLimit) /\ DecimalValue(rawLimit.text) = 0) ) =>
                pagination.limit = 25
        /\ AllDigits(rawOffset) => pagination.offset = DecimalValue(rawOffset.text)
        /\ (rawOffset = None \/ NonNumeric(rawOffset) \/ MinusNumber(rawOffset)) =>
                pagination.offset = 0

\* compute("-5", "-10") has answered {limit 25, offset 0}
C10_Witness ==
    /\ ppc = "done"
    /\ rawLimit = [kind |-> "text", text |-> <<"-", "5">>]
    /\ rawOffset = [kind |-> "text", text |-> <<"-", "1", "0">>]
    /\ pagination = [kind |-> "window", limit |-> 25, offset |-> 0]

(***************************************************************************)
(* The link builder (lib/hateoas.ts), generateHATEOASLinks(req, total,     *)
(* limit, offset): a link is the request's URL with limit and offset       *)
(* overwritten; prev and next are None when the page has none.  A client   *)
(* moves over the pages of one collection by following the links.          *)
(***************************************************************************)
MaxTotal == 30
LinkLimits == {1, 2, 3, DefaultLimit}

Max(a, b) == IF a > b THEN a ELSE b

Url(baseUrl, limit, offset) ==
    [kind |-> "url", base |-> baseUrl, limit |-> limit, offset |-> offset]

\* `last`: the offset of the final page that is not empty
lastOffsetFloorTotal(total, limit) ==
    IF total > 0 THEN Max(0, (total \div limit) * limit) ELSE 0

lastOffset(total, limit) ==
    IF total > 0 THEN Max(0, ((total - 1) \div limit) * limit) ELSE 0

\* the link set with prev not clamped at 0
linkSetPrevUnclamped(baseUrl, total, limit, offset) ==
    [self |-> Url(baseUrl, limit, offset),
     first |-> Url(baseUrl, limit, 0),
     last |-> Url(baseUrl, limit, lastOffset(total, limit)),
     prev |-> IF offset > 0 THEN Url(baseUrl, limit, offset - limit) ELSE None,
     next |-> IF offset + limit < total THEN Url(baseUrl, limit, offset + limit) ELSE None]

\* the link set with a next link up to and including offset + limit = total
linkSetNextInclusive(baseUrl, total, limit, offset) ==
    [self |-> Url(baseUrl, limit, offset),
     first |-> Url(baseUrl, limit, 0),
     last |-> Url(baseUrl, limit, lastOffset(total, limit)),
     prev |-> IF offset > 0 THEN Url(baseUrl, limit, Max(0, offset - limit)) ELSE None,
     next |-> IF offset + limit <= total THEN Url(baseUrl, limit, offset + limit) ELSE None]

\* the link set with prev one item back instead of one page back
linkSetPrevByOne(baseUrl, total, limit, offset) ==
    [self |-> Url(baseUrl, limit, offset),
     first |-> Url(baseUrl, limit, 0),
     last |-> Url(baseUrl, limit, lastOffset(total, limit)),
     prev |-> IF offset > 0 THEN Url(baseUrl, limit, Max(0, offset - 1)) ELSE None,
     next |-> IF offset + limit < total THEN Url(baseUrl, limit, offset + limit) ELSE None]

generateHATEOASLinks(baseUrl, total, limit, offset) ==
    [self |-> Url(baseUrl, limit, offset),
     first |-> Url(baseUrl, limit, 0),
     last |-> Url(baseUrl, limit, lastOffset(total, limit)),
     prev |-> IF offset > 0 THEN Url(baseUrl, limit, Max(0, offset - limit)) ELSE None,
     next |-> IF offset + limit < total THEN Url(baseUrl, limit, offset + limit) ELSE None]

BaseUrl == "/project_files?ProjectID=1"

\* a page of the collection is requested and answered with its links
InitLinks ==
    /\ ltotal \in 0..MaxTotal
    /\ llimit \in LinkLimits
    /\ loffset \in 0..MaxTotal
    /\ links = generateHATEOASLinks(BaseUrl, ltotal, llimit, loffset)
    /\ trail = IF loffset = 0 THEN <<0>> ELSE <<>>
    /\ TreeIdle
    /\ ListIdle
    /\ PageIdle
    /\ AppIdle
    /\ TwoIdle
    /\ LoginIdle
    /\ RouteIdle
    /\ MailIdle

\* the client requests the page that link u names
Follow(u) ==
    /\ loffset' = u.offset
    /\ llimit' = u.limit
    /\ links' = generateHATEOASLinks(u.base, ltotal, u.limit, u.offset)
    /\ UNCHANGED <<ltotal, treeVars, listVars, pageVars, appVars, twoVars, loginVars, routeVars, mailVars>>

FollowNext ==
    /\ links.next # None
    /\ Follow(links.next)
    /\ trail' = IF trail = <<>> THEN <<>> ELSE Append(trail, links.next.offset)

FollowPrev ==
    /\ links.prev # None
    /\ Follow(links.prev)
    /\ trail' = <<>>

FollowFirst ==
    /\ Follow(links.first)
    /\ trail' = <<0>>

FollowLast ==
    /\ Follow(links.last)
    /\ trail' = <<>>

NextLinks ==
    \/ FollowNext
    \/ FollowPrev
    \/ FollowFirst
    \/ FollowLast

SpecLinks == InitLinks /\ [][NextLinks]_vars

(***************************************************************************)
(* C11: the link set has a prev link exactly when offset > 0, with offset  *)
(* max(0, offset - limit), and a next link exactly when offset + limit <   *)
(* total, with offset offset + limit; self carries the page's offset and   *)
(* first carries offset 0.                                                 *)
(***************************************************************************)
C11_PrevNext ==
    links # None =>
        /\ links.self.offset = loffset /\ links.self.limit = llimit
        /\ links.first.offset = 0
        /\ (links.prev # None) <=> (loffset > 0)
        /\ links.prev # None =>
            /\ links.prev.offset >= 0
            /\ links.prev.offset = IF loffset >= llimit THEN loffset - llimit ELSE 0
        /\ (links.next # None) <=> (loffset + llimit < ltotal)
        /\ links.next # None => links.next.offset = loffset + llimit
        /\ (ltotal = 0 /\ loffset = 0) => (links.prev = None /\ links.next = None)

\* the page (total 30, limit 25, offset 25) reached from (30, 25, 0) by its
\* next link: prev at 0 and no next
C11_Witness ==
    /\ ltotal = 30 /\ llimit = 25 /\ loffset = 25
    /\ trail = <<0, 25>>
    /\ links.prev # None /\ links.prev.offset = 0
    /\ links.next = None

(***************************************************************************)
(* C12: the last link's offset is a multiple of limit; when total > 0 it   *)
(* is floor((total - 1) / limit) * limit and last < total <= last + limit, *)
(* and it is 0 when total is 0.                                            *)
(***************************************************************************)
C12_LastOffset ==
    links # None =>
        /\ links.last.offset >= 0
        /\ links.last.offset % llimit = 0
        /\ ltotal = 0 => links.last.offset = 0
        /\ ltotal > 0 =>
            /\ links.last.offset = ((ltotal - 1) \div llimit) * llimit
            /\ links.last.offset < ltotal
            /\ ltotal <= links.last.offset + llimit

\* a collection whose total is a multiple of the limit, seen from its last page
C12_Witness ==
    /\ links # None
    /\ ltotal > llimit
    /\ ltotal % llimit = 0
    /\ loffset = links.last.offset
    /\ loffset = ltotal - llimit

(***************************************************************************)
(* C20: a walk from offset 0 along next links visits the offsets 0, limit, *)
(* 2*limit, ... below max(total, 1), so it ends; when it stands on a page  *)
(* without next link that page's offset is the last link's offset and the  *)
(* windows visited cover every index of [0, total) exactly once.           *)
(***************************************************************************)
C20_NextWalk ==
    trail # <<>> =>
        /\ \A i \in DOMAIN trail : trail[i] = (i - 1) * llimit
        /\ trail[Len(trail)] = loffset
        /\ loffset < Max(ltotal, 1)
        /\ links.next = None =>
            /\ loffset = links.last.offset
            /\ \A x \in 0..(ltotal - 1) :
                Cardinality({i \in DOMAIN trail :
                    trail[i] <= x /\ x < trail[i] + llimit}) = 1

\* a walk of at least three pages that has reached the page without next link
C20_Witness ==
    /\ Len(trail) >= 3
    /\ links.next = None
    /\ ltotal % llimit # 0

(***************************************************************************)
(* The application as wired in app.ts, serving one request to a protected  *)
(* route: authMiddleware with User.verifyToken against the user service,   *)
(* then the route handler (POST /projects or GET /project_files).  Time is *)
(* counted in seconds.                                                     *)
(***************************************************************************)
MaxTime == 62
\* Date.prototype.getSeconds() answers the seconds within the minute
SecondsPerMinute == 60
TTLs == {1, 3}
UserIds == {7, 8}
Routes == {"POST /projects", "GET /project_files"}

getSeconds(t) == t % SecondsPerMinute

\* a response body JSON.parse throws on
Unparsable == [kind |-> "unparsable"]

\* the test of lines 18-21 on the parsed token
FoundExpired(tok, now) == getSeconds(now) > getSeconds(tok.CreationDate) + tok.TTL

\* verifyToken issuing the delete for every token it rejects
verifyTokenDeletesOnAnyFailure(response, now) ==
    IF response.status # 200
    THEN [kind |-> "throw", message |-> "Invalid TokenID", delete |-> TRUE]
    ELSE IF response.token = Unparsable
    THEN [kind |-> "throw", message |-> "Invalid TokenID", delete |-> TRUE]
    ELSE IF FoundExpired(response.token, now)
    THEN [kind |-> "throw", message |-> "Invalid TokenID", delete |-> TRUE]
    ELSE [kind |-> "return", UserID |-> response.token.UserID, delete |-> FALSE]

\* User.verifyToken after its await, at time now: what it returns or throws,
\* and whether it issues the delete of the token
verifyToken(response, now) ==
    IF response.status # 200
    THEN [kind |-> "throw", message |-> "Invalid TokenID", delete |-> FALSE]
    ELSE IF response.token = Unparsable
    THEN [kind |-> "throw", message |-> "Invalid TokenID", delete |-> FALSE]
    ELSE IF FoundExpired(response.token, now)
    THEN [kind |-> "throw", message |-> "Invalid TokenID", delete |-> TRUE]
    ELSE [kind |-> "return", UserID |-> response.token.UserID, delete |-> FALSE]

\* authMiddleware without the return after the 401 for a missing header
authNoTokenFallsThrough ==
    [respond |-> TRUE, status |-> 401, message |-> "TokenID header missing",
     verify |-> TRUE]

\* authMiddleware, `if (!tokenid)`
authNoToken ==
    [respond |-> TRUE, status |-> 401, message |-> "TokenID header missing",
     verify |-> FALSE]

\* authMiddleware with next() after the try/catch
authAfterVerifyAlwaysNext(result) ==
    IF result.kind = "return"
    THEN [respond |-> FALSE, next |-> TRUE, userId |-> result.UserID]
    ELSE [respond |-> TRUE, status |-> 401, message |-> "Invalid TokenID",
          next |-> TRUE, userId |-> None]

\* authMiddleware, the try/catch around verifyToken
authAfterVerify(result) ==
    IF result.kind = "return"
    THEN [respond |-> FALSE, next |-> TRUE, userId |-> result.UserID]
    ELSE [respond |-> TRUE, status |-> 401, message |-> "Invalid TokenID",
          next |-> FALSE, userId |-> None]

Json(status, message) == [kind |-> "json", status |-> status, message |-> message]

Requests == [route : Routes, tokenid : {"missing", "held", "unknown"}, param : BOOLEAN]

InitApp ==
    /\ clock = 0
    /\ token = None
    /\ areq = None
    /\ apc = "idle"
    /\ fetched = None
    /\ userId = None
    /\ responses = <<>>
    /\ nextCalls = 0
    /\ calls = <<>>
    /\ deletes = 0
    /\ deleted = "none"
    /\ TreeIdle
    /\ ListIdle
    /\ PageIdle
    /\ LinkIdle
    /\ TwoIdle
    /\ LoginIdle
    /\ RouteIdle
    /\ MailIdle

appRest == <<treeVars, listVars, pageVars, linkVars, twoVars, loginVars, routeVars, mailVars>>

\* a second passes
Tick ==
    /\ apc = "idle"
    /\ clock < MaxTime
    /\ clock' = clock + 1
    /\ UNCHANGED <<token, areq, apc, fetched, userId, responses, nextCalls, calls,
                   deletes, deleted, appRest>>

\* the user service creates the token of a login
IssueToken(uid, ttl) ==
    /\ apc = "idle"
    /\ token = None
    /\ token' = [UserID |-> uid, TTL |-> ttl, CreationDate |-> clock]
    /\ UNCHANGED <<clock, areq, apc, fetched, userId, responses, nextCalls, calls,
                   deletes, deleted, appRest>>

\* a request to a protected route reaches authMiddleware
Arrive(r) ==
    /\ apc = "idle"
    /\ areq' = r
    /\ apc' = "auth"
    /\ UNCHANGED <<clock, token, fetched, userId, responses, nextCalls, calls,
                   deletes, deleted, appRest>>

\* authMiddleware, no tokenid header
AuthMissingToken ==
    /\ apc = "auth"
    /\ areq.tokenid = "missing"
    /\ responses' = Append(responses, Json(authNoToken.status, authNoToken.message))
    /\ apc' = IF authNoToken.verify THEN "verifying" ELSE "done"
    /\ UNCHANGED <<clock, token, areq, fetched, userId, nextCalls, calls, deletes, deleted,
                   appRest>>

\* authMiddleware up to the await of verifyToken's axios.get
AuthVerify ==
    /\ apc = "auth"
    /\ areq.tokenid # "missing"
    /\ apc' = "verifying"
    /\ UNCHANGED <<clock, token, areq, fetched, userId, responses, nextCalls, calls,
                   deletes, deleted, appRest>>

\* the user service answers GET /user_tokens/:id
UserServiceAnswers ==
    /\ apc = "verifying"
    /\ fetched' = IF areq.tokenid = "held" /\ token # None
                  THEN [status |-> 200, token |-> token]
                  ELSE [status |-> 404]
    /\ apc' = "fetched"
    /\ UNCHANGED <<clock, token, areq, userId, responses, nextCalls, calls, deletes, deleted,
                   appRest>>

\* the user service answers 200 with a body that is no JSON text
UserServiceAnswersUnparsable ==
    /\ apc = "verifying"
    /\ fetched' = [status |-> 200, token |-> Unparsable]
    /\ apc' = "fetched"
    /\ UNCHANGED <<clock, token, areq, userId, responses, nextCalls, calls, deletes,
                   deleted, appRest>>

\* the call to the user service fails
UserServiceFails ==
    /\ apc = "verifying"
    /\ fetched' = [status |-> 500]
    /\ apc' = "fetched"
    /\ UNCHANGED <<clock, token, areq, userId, responses, nextCalls, calls, deletes, deleted,
                   appRest>>

\* verifyToken after its await, and the rest of authMiddleware
AuthSettles ==
    /\ apc = "fetched"
    /\ LET result == verifyToken(fetched, clock)
           outcome == authAfterVerify(result)
       IN  /\ deletes' = IF result.delete THEN deletes + 1 ELSE deletes
           /\ deleted' = IF result.delete THEN "pending" ELSE deleted
           /\ userId' = outcome.userId
           /\ responses' = IF outcome.respond
                           THEN Append(responses, Json(outcome.status, outcome.message))
                           ELSE responses
           /\ nextCalls' = IF outcome.next THEN nextCalls + 1 ELSE nextCalls
           /\ apc' = IF outcome.next THEN "handler" ELSE "done"
    /\ UNCHANGED <<clock, token, areq, fetched, calls, appRest>>

\* the delete that verifyToken did not await is carried out by the user service
DeleteSucceeds ==
    /\ deleted = "pending"
    /\ token' = None
    /\ deleted' = "done"
    /\ UNCHANGED <<clock, areq, apc, fetched, userId, responses, nextCalls, calls,
                   deletes, appRest>>

\* the delete fails: its promise rejects, and nothing handles the rejection
DeleteFails ==
    /\ deleted = "pending"
    /\ deleted' = "failed"
    /\ UNCHANGED <<clock, token, areq, apc, fetched, userId, responses, nextCalls,
                   calls, deletes, appRest>>

\* POST /projects without ProjectName
AddProjectInvalid ==
    /\ apc = "handler"
    /\ areq.route = "POST /projects"
    /\ ~areq.param
    /\ responses' = Append(responses, Json(400, "ProjectName is required"))
    /\ apc' = "done"
    /\ UNCHANGED <<clock, token, areq, fetched, userId, nextCalls, calls, deletes, deleted,
                   appRest>>

\* POST /projects up to the await of addProject's axios.post
AddProjectCalls ==
    /\ apc = "handler"
    /\ areq.route = "POST /projects"
    /\ areq.param
    /\ calls' = Append(calls, [op |-> "addProject", userId |-> userId])
    /\ apc' = "awaiting"
    /\ UNCHANGED <<clock, token, areq, fetched, userId, responses, nextCalls, deletes, deleted,
                   appRest>>

\* the project service answers, the handler responds
AddProjectSettles(status) ==
    /\ apc = "awaiting"
    /\ responses' = Append(responses,
                        IF status = 201 THEN Json(201, "Project created")
                        ELSE Json(500, "Internal server error"))
    /\ apc' = "done"
    /\ UNCHANGED <<clock, token, areq, fetched, userId, nextCalls, calls, deletes, deleted,
                   appRest>>

\* GET /project_files without ProjectID
GetFilesInvalid ==
    /\ apc = "handler"
    /\ areq.route = "GET /project_files"
    /\ ~areq.param
    /\ responses' = Append(responses, Json(400, "ProjectID is required"))
    /\ apc' = "done"
    /\ UNCHANGED <<clock, token, areq, fetched, userId, nextCalls, calls, deletes, deleted,
                   appRest>>

\* GET /project_files with ProjectID: app.ts installs no pagination middleware,
\* req.pagination is undefined and destructuring it throws before the try
\* block; the async handler's promise rejects.  Express 4 leaves the rejection
\* unhandled and the request unanswered.
GetFilesRejectsUnanswered ==
    /\ apc = "handler"
    /\ areq.route = "GET /project_files"
    /\ areq.param
    /\ apc' = "abandoned"
    /\ UNCHANGED <<clock, token, areq, fetched, userId, responses, nextCalls, calls,
                   deletes, deleted, appRest>>

\* the same rejection under Express 5: the default error handler answers 500
GetFilesRejectsDefault ==
    /\ apc = "handler"
    /\ areq.route = "GET /project_files"
    /\ areq.param
    /\ responses' = Append(responses, [kind |-> "html", status |-> 500,
                                       message |-> "TypeError"])
    /\ apc' = "done"
    /\ UNCHANGED <<clock, token, areq, fetched, userId, nextCalls, calls, deletes, deleted,
                   appRest>>

NextApp ==
    \/ Tick
    \/ \E uid \in UserIds, ttl \in TTLs : IssueToken(uid, ttl)
    \/ \E r \in Requests : Arrive(r)
    \/ AuthMissingToken
    \/ AuthVerify
    \/ UserServiceAnswers
    \/ UserServiceAnswersUnparsable
    \/ UserServiceFails
    \/ AuthSettles
    \/ DeleteSucceeds
    \/ DeleteFails
    \/ AddProjectInvalid
    \/ AddProjectCalls
    \/ \E status \in {201, 500} : AddProjectSettles(status)
    \/ GetFilesInvalid
    \/ GetFilesRejectsUnanswered
    \/ GetFilesRejectsDefault

SpecApp == InitApp /\ [][NextApp]_vars

\* authMiddleware has finished for the request
AuthDone == apc \in {"handler", "awaiting", "abandoned", "done"}

\* the handler has finished (its promise has settled)
HandlerSettled == apc \in {"abandoned", "done"}

\* verifyToken got the token from the user service and has decided on it
TokenChecked ==
    AuthDone /\ fetched # None /\ fetched.status = 200 /\ fetched.token # Unparsable

Unauthorized(message) == <<Json(401, message)>>

NumberOf401 == Cardinality({i \in DOMAIN responses : responses[i].status = 401})

(***************************************************************************)
(* C13: a token lives TTL seconds from its CreationDate: verifyToken       *)
(* returns its UserID when the current time is at most CreationDate + TTL  *)
(* and rejects with 'Invalid TokenID' when more than TTL seconds have      *)
(* passed since CreationDate.                                              *)
(***************************************************************************)
C13_TokenLivesTTL ==
    TokenChecked =>
        IF clock <= fetched.token.CreationDate + fetched.token.TTL
        THEN nextCalls = 1 /\ userId = fetched.token.UserID
        ELSE nextCalls = 0 /\ responses = Unauthorized("Invalid TokenID")

(***************************************************************************)
(* C14: a request to a protected route without tokenid header is answered  *)
(* 401 'TokenID header missing'; verifyToken is not invoked, the route     *)
(* handler does not run and no call is made to the project service.        *)
(***************************************************************************)
C14_MissingTokenRejected ==
    (areq # None /\ areq.tokenid = "missing" /\ apc # "auth") =>
        /\ apc = "done"
        /\ responses = Unauthorized("TokenID header missing")
        /\ fetched = None
        /\ nextCalls = 0
        /\ calls = <<>>
        /\ deletes = 0

\* a request with everything but the header, while a token exists, was answered
C14_Witness ==
    /\ apc = "done"
    /\ areq.tokenid = "missing"
    /\ areq.route = "POST /projects"
    /\ areq.param
    /\ token # None
    /\ responses = Unauthorized("TokenID header missing")

(***************************************************************************)
(* C18: the route handler runs, and the project service is called, only    *)
(* after verifyToken succeeded for the request's tokenid, with req.userId  *)
(* the UserID it returned; authMiddleware calls next() once or sends one   *)
(* 401, never both, and once it has finished exactly one of the two.       *)
(***************************************************************************)
C18_HandlerOnlyAfterVerify ==
    /\ areq # None =>
        /\ nextCalls + NumberOf401 <= 1
        /\ AuthDone => nextCalls + NumberOf401 = 1
    /\ (nextCalls > 0 \/ calls # <<>> \/ apc \in {"handler", "awaiting", "abandoned"}) =>
        /\ nextCalls = 1
        /\ areq.tokenid = "held"
        /\ fetched # None /\ fetched.status = 200
        /\ verifyToken(fetched, clock).kind = "return"
        /\ userId = fetched.token.UserID
        /\ \A i \in DOMAIN calls : calls[i].userId = fetched.token.UserID

\* POST /projects has called the project service for the verified user
C18_Witness ==
    /\ apc = "awaiting"
    /\ calls = <<[op |-> "addProject", userId |-> token.UserID]>>
    /\ nextCalls = 1
    /\ responses = <<>>

(***************************************************************************)
(* C19: an authenticated GET /project_files with ProjectID is answered     *)
(* exactly once, with 200 (data and links) or 500 'Internal server error', *)
(* once its handler has finished; without ProjectID it is answered 400 and *)
(* no call is made to the project service.                                 *)
(***************************************************************************)
C19_GetFilesAnswered ==
    (areq # None /\ areq.route = "GET /project_files" /\ nextCalls = 1 /\ HandlerSettled) =>
        IF areq.param
        THEN /\ Len(responses) = 1
             /\ \/ responses[1].status = 200
                \/ responses[1] = Json(500, "Internal server error")
        ELSE /\ responses = <<Json(400, "ProjectID is required")>>
             /\ calls = <<>>

(***************************************************************************)
(* POST /users/login: the route handler, User.findUserByUserName and       *)
(* User.createToken, and the user service that answers them.  A JSON text  *)
(* is held as [json |-> v], v being the value JSON.parse makes of it.      *)
(***************************************************************************)
UserNames == {"ann", "bob"}

\* the usernames a login request can carry: none, a stored one, an unknown one
LoginNames == {""} \cup UserNames \cup {"eve"}

\* UserModel as the handler reads it: UserID: number | null
UserModel == [UserName : UserNames, UserID : UserIds \cup {Null}]

Stringify(v) == [json |-> v]

JSONparse(text) == text.json

Matching(name) == {u \in users : u.UserName = name}

\* the data of the answer to GET /users?UserName=..: the matching users, each
\* as a JSON text (at most one user carries a name)
MatchingData(name) ==
    IF Matching(name) = {} THEN <<>>
    ELSE <<Stringify(CHOOSE u \in Matching(name) : TRUE)>>

\* User.findUserByUserName, after the axios.get settled with response: axios
\* rejects for a non-2xx status; JSON.parse(response.data.data[0]) runs before
\* the status test and throws for data[0] undefined
findUserByUserName(response) ==
    IF response.kind = "rejected" THEN [kind |-> "throw", message |-> "Invalid UserName"]
    ELSE IF Len(response.data) = 0
    THEN [kind |-> "throw", message |-> "Invalid UserName"]
    ELSE IF response.status = 200
    THEN [kind |-> "return", user |-> JSONparse(response.data[1])]
    ELSE [kind |-> "throw", message |-> "Invalid UserName"]

\* User.createToken, after the axios.post settled with response
createToken(response) ==
    IF response.kind = "rejected" THEN [kind |-> "throw", message |-> "Invalid UserID"]
    ELSE IF response.status = 201
    THEN [kind |-> "return", token |-> JSONparse(response.data)]
    ELSE [kind |-> "throw", message |-> "Invalid UserID"]

\* the test without its second half
NoUserIgnoresId(user) == user = None

\* `!user || !user.UserID`
NoUser(user) == user = None \/ ~Truthy(user.UserID)

LoginSuccessful(user, tok) ==
    [kind |-> "json", status |-> 200, message |-> "Login successful",
     data |-> [userId |-> user.UserID, token |-> tok]]

InitLogin ==
    /\ users = {}
    /\ lreq = None
    /\ lgpc = "idle"
    /\ found = None
    /\ tokens = <<>>
    /\ lresp = <<>>
    /\ ucalls = <<>>
    /\ TreeIdle
    /\ ListIdle
    /\ PageIdle
    /\ LinkIdle
    /\ AppIdle
    /\ TwoIdle
    /\ RouteIdle
    /\ MailIdle

loginRest == <<treeVars, listVars, pageVars, linkVars, appVars, twoVars, routeVars,
               mailVars>>

\* the user service gets a user under a name it does not hold yet
RegisterUser(u) ==
    /\ lgpc = "idle"
    /\ Matching(u.UserName) = {}
    /\ users' = users \cup {u}
    /\ UNCHANGED <<lreq, lgpc, found, tokens, lresp, ucalls, loginRest>>

\* POST /users/login arrives with body {username}
LoginArrives(name) ==
    /\ lgpc = "idle"
    /\ lreq' = [username |-> name]
    /\ lgpc' = "handler"
    /\ UNCHANGED <<users, found, tokens, lresp, ucalls, loginRest>>

\* `if (!username)`: 400
LoginInvalid ==
    /\ lgpc = "handler"
    /\ lreq.username = ""
    /\ lresp' = Append(lresp, Json(400, "Username is required"))
    /\ lgpc' = "done"
    /\ UNCHANGED <<users, lreq, found, tokens, ucalls, loginRest>>

\* `await User.findUserByUserName(username)`: the GET is sent
LoginFinds ==
    /\ lgpc = "handler"
    /\ lreq.username # ""
    /\ lgpc' = "finding"
    /\ ucalls' = Append(ucalls, [call |-> "findUserByUserName", arg |-> lreq.username])
    /\ UNCHANGED <<users, lreq, found, tokens, lresp, loginRest>>

\* the user service answers 200 with the matching users
FindAnswers ==
    /\ lgpc = "finding"
    /\ found' = findUserByUserName([kind |-> "response", status |-> 200,
                                    data |-> MatchingData(lreq.username)])
    /\ lgpc' = "found"
    /\ UNCHANGED <<users, lreq, tokens, lresp, ucalls, loginRest>>

\* the user service answers with a non-2xx status or cannot be reached: axios
\* rejects
FindRejected ==
    /\ lgpc = "finding"
    /\ found' = findUserByUserName([kind |-> "rejected"])
    /\ lgpc' = "found"
    /\ UNCHANGED <<users, lreq, tokens, lresp, ucalls, loginRest>>

\* findUserByUserName threw: the handler's catch answers 500
LoginFindThrew ==
    /\ lgpc = "found"
    /\ found.kind = "throw"
    /\ lresp' = Append(lresp, Json(500, "Internal server error"))
    /\ lgpc' = "done"
    /\ UNCHANGED <<users, lreq, found, tokens, ucalls, loginRest>>

\* `if (!user || !user.UserID)`: 404
LoginNoUser ==
    /\ lgpc = "found"
    /\ found.kind = "return"
    /\ NoUser(found.user)
    /\ lresp' = Append(lresp, Json(404, "User not found"))
    /\ lgpc' = "done"
    /\ UNCHANGED <<users, lreq, found, tokens, ucalls, loginRest>>

\* `await User.createToken(user.UserID)`: the POST is sent
LoginCreates ==
    /\ lgpc = "found"
    /\ found.kind = "return"
    /\ ~NoUser(found.user)
    /\ lgpc' = "creating"
    /\ ucalls' = Append(ucalls, [call |-> "createToken", arg |-> found.user.UserID])
    /\ UNCHANGED <<users, lreq, found, tokens, lresp, loginRest>>

\* the user service creates a token for the UserID posted and answers with it,
\* under status 201 or another 2xx status
CreateAnswers(ttl, status) ==
    /\ lgpc = "creating"
    /\ LET tok == [TokenID |-> Len(tokens) + 1, UserID |-> ucalls[Len(ucalls)].arg,
                   TTL |-> ttl]
           result == createToken([kind |-> "response", status |-> status,
                                  data |-> Stringify(tok)])
       IN  /\ tokens' = Append(tokens, [token |-> tok, status |-> status])
           /\ lresp' = Append(lresp,
                IF result.kind = "return"
                THEN LoginSuccessful(found.user, result.token)
                ELSE Json(500, "Internal server error"))
    /\ lgpc' = "done"
    /\ UNCHANGED <<users, lreq, found, ucalls, loginRest>>

\* the POST fails: createToken throws, the handler's catch answers 500
CreateRejected ==
    /\ lgpc = "creating"
    /\ LET result == createToken([kind |-> "rejected"])
       IN  lresp' = Append(lresp,
                IF result.kind = "return"
                THEN LoginSuccessful(found.user, result.token)
                ELSE Json(500, "Internal server error"))
    /\ lgpc' = "done"
    /\ UNCHANGED <<users, lreq, found, tokens, ucalls, loginRest>>

NextLogin ==
    \/ \E u \in UserModel : RegisterUser(u)
    \/ \E name \in LoginNames : LoginArrives(name)
    \/ LoginInvalid
    \/ LoginFinds
    \/ FindAnswers
    \/ FindRejected
    \/ LoginFindThrew
    \/ LoginNoUser
    \/ LoginCreates
    \/ \E ttl \in TTLs, status \in {201, 200} : CreateAnswers(ttl, status)
    \/ CreateRejected

SpecLogin == InitLogin /\ [][NextLogin]_vars

(***************************************************************************)
(* C15: a login with a username for which the user service holds no user   *)
(* is answered 404 'User not found', not 500, and no token is created for  *)
(* the request.                                                            *)
(***************************************************************************)
C15_UnknownUserIs404 ==
    (lgpc = "done" /\ lreq.username # "" /\ Matching(lreq.username) = {}) =>
        /\ lresp = <<Json(404, "User not found")>>
        /\ tokens = <<>>

(***************************************************************************)
(* Two listFiles calls in flight in one process.  Each call awaits its     *)
(* axios.get; what runs after the await (the parse and buildFileStructure) *)
(* is synchronous.  builds holds, for each invocation of buildFileStructure*)
(* that has run, the rootFiles array it left on the heap.                  *)
(***************************************************************************)
MaxBatch == 2
Callers == {1, 2}

\* the records the project service answers with in this specification
BatchFile == {f \in ProjectFile : f.FileName = "a" /\ f.FileID # 0 /\ f.ParentDirectory # 0}

Batches == UNION {[1..n -> BatchFile] : n \in 0..MaxBatch}

\* response.data.data: each file as a JSON text
DataOf(batch) == [k \in DOMAIN batch |-> Stringify(batch[k])]

\* `response.data.data.map((file) => JSON.parse(file))`
ParseFiles(data) == [k \in DOMAIN data |-> JSONparse(data[k])]

\* an invocation that goes on with the rootFiles array the last invocation left;
\* the nodes of that invocation are not nodes of this one
newInvocationSharedRoots(fs, heap) ==
    [fileMap |-> NewMap,
     forest |-> IF heap = <<>> THEN EmptyForest(fs)
                ELSE [EmptyForest(fs) EXCEPT !.rootFiles =
                        [k \in DOMAIN heap[Len(heap)].rootFiles |->
                            Len(fs) + heap[Len(heap)].rootFiles[k]]]]

\* `const fileMap = new Map(); const rootFiles = []`: an invocation starts with
\* its own lookup table and result array, whatever the heap holds
newInvocation(fs, heap) == [fileMap |-> NewMap, forest |-> EmptyForest(fs)]

\* buildFileStructure invoked in a process whose earlier invocations left heap
buildFileStructureIn(fs, heap) ==
    LET start == newInvocation(fs, heap)
        fileMap == FillFileMap(fs, 1, start.fileMap)
        st == LinkFiles(fs, 1, fileMap, start.forest)
    IN  [kind |-> IF st.threw THEN "threw" ELSE "returned",
         rootFiles |-> st.rootFiles, children |-> st.children]

NotCalled == [lpc |-> "idle", data |-> <<>>, files |-> <<>>, result |-> NoTree]

InitTwo ==
    /\ inflight = [i \in Callers |-> NotCalled]
    /\ builds = <<>>
    /\ TreeIdle
    /\ ListIdle
    /\ PageIdle
    /\ LinkIdle
    /\ AppIdle
    /\ LoginIdle
    /\ RouteIdle
    /\ MailIdle

twoRest == <<treeVars, listVars, pageVars, linkVars, appVars, loginVars, routeVars, mailVars>>

\* listFiles is called and reaches its await; the second call enters once the
\* first has
ListFilesAwaits(i) ==
    /\ inflight[i].lpc = "idle"
    /\ i = 1 \/ inflight[1].lpc # "idle"
    /\ inflight' = [inflight EXCEPT ![i].lpc = "awaiting"]
    /\ UNCHANGED <<builds, twoRest>>

\* the project service answers call i with 200 and a batch
FetchCompletes(i, batch) ==
    /\ inflight[i].lpc = "awaiting"
    /\ inflight' = [inflight EXCEPT ![i].lpc = "answered", ![i].data = DataOf(batch)]
    /\ UNCHANGED <<builds, twoRest>>

\* the fetch of call i fails: listFiles rethrows
FetchFails(i) ==
    /\ inflight[i].lpc = "awaiting"
    /\ inflight' = [inflight EXCEPT ![i].lpc = "threw"]
    /\ UNCHANGED <<builds, twoRest>>

\* call i resumes after its await: parses the batch, builds the forest, returns
ListFilesReturns(i) ==
    /\ inflight[i].lpc = "answered"
    /\ LET parsed == ParseFiles(inflight[i].data)
           result == buildFileStructureIn(parsed, builds)
       IN  /\ inflight' = [inflight EXCEPT ![i].lpc = "returned",
                                           ![i].files = parsed,
                                           ![i].result = result]
           /\ builds' = Append(builds, [by |-> i, rootFiles |-> result.rootFiles])
    /\ UNCHANGED twoRest

NextTwo ==
    \/ \E i \in Callers : ListFilesAwaits(i)
    \/ \E i \in Callers, batch \in Batches : FetchCompletes(i, batch)
    \/ \E i \in Callers : FetchFails(i)
    \/ \E i \in Callers : ListFilesReturns(i)

SpecTwo == InitTwo /\ [][NextTwo]_vars

HasReturned(i) == inflight[i].lpc = "returned"

LinksAt(u) == generateHATEOASLinks(u.base, ltotal, u.limit, u.offset)

\* the page's next link leads to a page whose prev link leads back
NextThenPrev ==
    links.next # None =>
        /\ LinksAt(links.next).prev # None
        /\ LinksAt(links.next).prev.offset = loffset

\* the page's prev link leads to a page whose next link, if any, leads back
PrevThenNext ==
    (links.prev # None /\ LinksAt(links.prev).next # None) =>
        LinksAt(links.prev).next.offset = loffset

(***************************************************************************)
(* C21 as stated: for every window, next followed by prev carries the      *)
(* original offset, and prev followed by next (when that page has a next   *)
(* link) carries the original offset.                                      *)
(***************************************************************************)
C21_PrevNextInverse ==
    /\ NextThenPrev
    /\ PrevThenNext

(***************************************************************************)
(* C21 amended: next followed by prev carries the original offset for      *)
(* every window; prev followed by next carries the original offset for     *)
(* every window with offset >= limit (where prev is not clamped at 0).     *)
(***************************************************************************)
C21_PrevNextInverseUnclamped ==
    /\ NextThenPrev
    /\ loffset >= llimit => PrevThenNext

\* a page reached by following next from the first page, a whole page or more
\* into the collection, with both a prev and a next link
C21_Witness ==
    /\ Len(trail) >= 2
    /\ llimit > 1
    /\ loffset >= llimit
    /\ links.prev # None
    /\ links.next # None
    /\ LinksAt(links.prev).next # None

(***************************************************************************)
(* The ways verifyToken fails, and the delete it issues.                   *)
(***************************************************************************)
\* authMiddleware has called verifyToken and verifyToken has settled
Verified == AuthDone /\ fetched # None

\* the token was fetched and parsed, and the test of lines 18-21 found it expired
FetchedAndExpired ==
    /\ fetched.status = 200
    /\ fetched.token # Unparsable
    /\ FoundExpired(fetched.token, clock)

\* non-200 status or network error, unparsable body, expired token
VerifyFailed ==
    \/ fetched.status # 200
    \/ fetched.token = Unparsable
    \/ FetchedAndExpired

(***************************************************************************)
(* C22: every failure of verifyToken (non-200 status, network error,       *)
(* unparsable body, expired token) is answered by one 401 'Invalid         *)
(* TokenID' and the handler does not run; a delete of the token is issued  *)
(* exactly when the token was fetched and found expired, and the 401 is    *)
(* there whether that delete is pending, has succeeded or has failed.      *)
(***************************************************************************)
C22_VerifyFailures ==
    Verified =>
        /\ VerifyFailed =>
            /\ responses = Unauthorized("Invalid TokenID")
            /\ nextCalls = 0
            /\ apc = "done"
        /\ FetchedAndExpired <=> deleted \in {"pending", "done", "failed"}
        /\ deletes = IF FetchedAndExpired THEN 1 ELSE 0

\* an expired token was rejected and the delete issued for it has failed
C22_Witness ==
    /\ Verified
    /\ FetchedAndExpired
    /\ deleted = "failed"
    /\ responses = Unauthorized("Invalid TokenID")

(***************************************************************************)
(* The login handler's calls to the user service.                          *)
(***************************************************************************)
CreateCalls == {k \in DOMAIN ucalls : ucalls[k].call = "createToken"}

LoginResponded(status) == \E k \in DOMAIN lresp : lresp[k].status = status

(***************************************************************************)
(* C23: in POST /users/login createToken is called only after              *)
(* findUserByUserName returned a user with a UserID, with that UserID, and *)
(* at most once per request; the response is 200 'Login successful' only   *)
(* if the user service answered the token creation with 201, and then it   *)
(* carries the token created for that UserID; a request with no username   *)
(* gets 400 and makes no call to the user service.                         *)
(***************************************************************************)
C23_LoginCreatesOneToken ==
    /\ Cardinality(CreateCalls) <= 1
    /\ \A k \in CreateCalls :
        /\ found # None
        /\ found.kind = "return"
        /\ Truthy(found.user.UserID)
        /\ ucalls[k].arg = found.user.UserID
        /\ k > 1 /\ ucalls[k - 1].call = "findUserByUserName"
    /\ LoginResponded(200) =>
        /\ Len(lresp) = 1
        /\ tokens # <<>>
        /\ tokens[Len(tokens)].status = 201
        /\ lresp[1] = LoginSuccessful(found.user, tokens[Len(tokens)].token)
        /\ lresp[1].data.token.UserID = found.user.UserID
    /\ (lgpc = "done" /\ lreq.username = "") =>
        /\ lresp = <<Json(400, "Username is required")>>
        /\ ucalls = <<>>
        /\ tokens = <<>>

\* a login of a stored user was answered 200 with the token created for it
C23_Witness ==
    /\ lgpc = "done"
    /\ LoginResponded(200)
    /\ Cardinality(CreateCalls) = 1
    /\ \E u \in users : u.UserName = lreq.username /\ u.UserID = lresp[1].data.userId
    /\ \E u \in users : u.UserID = Null

(***************************************************************************)
(* The project and file routes behind authMiddleware (req.userId is set)   *)
(* and the ProjectService methods they await.  axios resolves a call for a *)
(* 2xx status and rejects it for any other status and for a network error. *)
(***************************************************************************)
ProjectRoutes ==
    {"POST /projects", "DELETE /projects/:projectId", "PUT /projects/:projectId",
     "GET /projects", "POST /project_files", "DELETE /project_files/:fileId",
     "PUT /project_files/:fileId", "GET /project_files/:fileId"}

\* the body or query fields a handler tests before it calls the service
Fields == {"ProjectName", "ProjectID", "Filename", "UpdatedFile"}

\* the statuses axios resolves with
Resolved == {200, 201, 204}

Return(value) == [kind |-> "return", value |-> value]

Throw(message) == [kind |-> "throw", message |-> message]

\* a method that tests the status and then parses the body
StatusThenParse(response, expected, failed) ==
    IF response.kind = "rejected" THEN Throw("Request failed")
    ELSE IF response.status # expected THEN Throw(failed)
    ELSE IF ~response.parsable THEN Throw("SyntaxError")
    ELSE Return("parsed")

\* a method that only tests the status
StatusOnly(response, expected, failed, value) ==
    IF response.kind = "rejected" THEN Throw("Request failed")
    ELSE IF response.status # expected THEN Throw(failed)
    ELSE Return(value)

addProject(response) == StatusThenParse(response, 201, "Failed to create project")

deleteProject(response) == StatusOnly(response, 204, "Failed to delete project", "undefined")

updateProjectName(response) ==
    StatusOnly(response, 200, "Failed to update project name", "undefined")

listProjects(response) == StatusThenParse(response, 200, "Failed to list projects")

addFile(response) == StatusOnly(response, 201, "Failed to add file", "undefined")

\* deleteFile returning for every status axios resolves with
deleteFileAnyStatus(response) ==
    IF response.kind = "rejected" THEN Throw("Request failed")
    ELSE Return("File deleted successfully")

deleteFile(response) ==
    StatusOnly(response, 204, "Failed to delete file", "File deleted successfully")

updateFile(response) == StatusOnly(response, 200, "Failed to update file", "undefined")

getFile(response) == StatusThenParse(response, 200, "Failed to get file")

\* what each handler requires, calls and answers
Handler(route) ==
    CASE route = "POST /projects" ->
            [needs |-> {"ProjectName"}, invalid |-> "ProjectName is required",
             method |-> "addProject", verb |-> "POST",
             status |-> 201, message |-> "Project created"]
      [] route = "DELETE /projects/:projectId" ->
            [needs |-> {}, invalid |-> "",
             method |-> "deleteProject", verb |-> "DELETE",
             status |-> 200, message |-> "Project deleted"]
      [] route = "PUT /projects/:projectId" ->
            [needs |-> {"ProjectName"}, invalid |-> "ProjectName is required",
             method |-> "updateProjectName", verb |-> "PUT",
             status |-> 200, message |-> "Project updated"]
      [] route = "GET /projects" ->
            [needs |-> {}, invalid |-> "",
             method |-> "listProjects", verb |-> "GET",
             status |-> 200, message |-> ""]
      [] route = "POST /project_files" ->
            [needs |-> {"ProjectID", "Filename"},
             invalid |-> "ProjectID and Filename are required",
             method |-> "addFile", verb |-> "POST",
             status |-> 201, message |-> "File added"]
      [] route = "DELETE /project_files/:fileId" ->
            [needs |-> {"ProjectID"}, invalid |-> "ProjectID is required",
             method |-> "deleteFile", verb |-> "DELETE",
             status |-> 200, message |-> "File deleted"]
      [] route = "PUT /project_files/:fileId" ->
            [needs |-> {"ProjectID", "UpdatedFile"},
             invalid |-> "ProjectID and UpdatedFile are required",
             method |-> "updateFile", verb |-> "PUT",
             status |-> 200, message |-> "File updated"]
      [] route = "GET /project_files/:fileId" ->
            [needs |-> {"ProjectID"}, invalid |-> "ProjectID is required",
             method |-> "getFile", verb |-> "GET",
             status |-> 200, message |-> ""]

\* the awaited service method, once axios has settled with response
Service(method, response) ==
    CASE method = "addProject" -> addProject(response)
      [] method = "deleteProject" -> deleteProject(response)
      [] method = "updateProjectName" -> updateProjectName(response)
      [] method = "listProjects" -> listProjects(response)
      [] method = "addFile" -> addFile(response)
      [] method = "deleteFile" -> deleteFile(response)
      [] method = "updateFile" -> updateFile(response)
      [] method = "getFile" -> getFile(response)

\* res.status(..).json({status: "success", message, data}); res.json is a 200
Success(route, value) ==
    [kind |-> "json", status |-> Handler(route).status,
     message |-> Handler(route).message, data |-> value]

InitRoutes ==
    /\ rreq = None
    /\ rpc = "idle"
    /\ rcalls = <<>>
    /\ ranswer = None
    /\ rresp = <<>>
    /\ TreeIdle
    /\ ListIdle
    /\ PageIdle
    /\ LinkIdle
    /\ AppIdle
    /\ TwoIdle
    /\ LoginIdle
    /\ MailIdle

routeRest ==
    <<treeVars, listVars, pageVars, linkVars, appVars, twoVars, loginVars, mailVars>>

\* an authenticated request reaches the handler of route with the given fields
RouteArrives(route, fields) ==
    /\ rpc = "idle"
    /\ rreq' = [route |-> route, fields |-> fields]
    /\ rpc' = "handler"
    /\ UNCHANGED <<rcalls, ranswer, rresp, routeRest>>

\* a required field is missing: 400 and return
RouteInvalid ==
    /\ rpc = "handler"
    /\ ~(Handler(rreq.route).needs \subseteq rreq.fields)
    /\ rresp' = Append(rresp, Json(400, Handler(rreq.route).invalid))
    /\ rpc' = "done"
    /\ UNCHANGED <<rreq, rcalls, ranswer, routeRest>>

\* the handler awaits the service method, which awaits its axios call
RouteCalls ==
    /\ rpc = "handler"
    /\ Handler(rreq.route).needs \subseteq rreq.fields
    /\ rcalls' = Append(rcalls, [method |-> Handler(rreq.route).method,
                                 verb |-> Handler(rreq.route).verb])
    /\ rpc' = "awaiting"
    /\ UNCHANGED <<rreq, ranswer, rresp, routeRest>>

\* the project service answers with a 2xx status
ProjectServiceAnswers(status, parsable) ==
    /\ rpc = "awaiting"
    /\ ranswer' = [kind |-> "response", status |-> status, parsable |-> parsable]
    /\ rpc' = "answered"
    /\ UNCHANGED <<rreq, rcalls, rresp, routeRest>>

\* the project service answers with another status, or cannot be reached
ProjectServiceRejects ==
    /\ rpc = "awaiting"
    /\ ranswer' = [kind |-> "rejected"]
    /\ rpc' = "answered"
    /\ UNCHANGED <<rreq, rcalls, rresp, routeRest>>

\* the service method settles and the handler answers
RouteSettles ==
    /\ rpc = "answered"
    /\ LET result == Service(Handler(rreq.route).method, ranswer)
       IN  rresp' = Append(rresp,
                IF result.kind = "return" THEN Success(rreq.route, result.value)
                ELSE Json(500, "Internal server error"))
    /\ rpc' = "done"
    /\ UNCHANGED <<rreq, rcalls, ranswer, routeRest>>

NextRoutes ==
    \/ \E route \in ProjectRoutes, fields \in SUBSET Fields : RouteArrives(route, fields)
    \/ RouteInvalid
    \/ RouteCalls
    \/ \E status \in Resolved, parsable \in BOOLEAN : ProjectServiceAnswers(status, parsable)
    \/ ProjectServiceRejects
    \/ RouteSettles

SpecRoutes == InitRoutes /\ [][NextRoutes]_vars

\* the status the project service answers a forwarded call with when it did it
ExpectedStatus(route) ==
    CASE route \in {"POST /projects", "POST /project_files"} -> 201
      [] route \in {"DELETE /projects/:projectId", "DELETE /project_files/:fileId"} -> 204
      [] OTHER -> 200

\* the fields whose absence fails the handler's validation
Required(route) ==
    CASE route \in {"POST /projects", "PUT /projects/:projectId"} -> {"ProjectName"}
      [] route = "POST /project_files" -> {"ProjectID", "Filename"}
      [] route = "PUT /project_files/:fileId" -> {"ProjectID", "UpdatedFile"}
      [] route \in {"DELETE /project_files/:fileId", "GET /project_files/:fileId"} ->
            {"ProjectID"}
      [] OTHER -> {}

RouteDone == rreq # None /\ rpc = "done"

AnsweredAsExpected ==
    /\ ranswer # None
    /\ ranswer.kind = "response"
    /\ ranswer.status = ExpectedStatus(rreq.route)

(***************************************************************************)
(* C24: a project or file route answers with a success status only if the  *)
(* project service answered the forwarded call with the expected status    *)
(* (201 create, 204 delete, 200 update, get, list); any other upstream     *)
(* status or upstream error ends in 500 'Internal server error'; a request *)
(* missing a required field gets 400 and no call is made to the project    *)
(* service.                                                                *)
(***************************************************************************)
C24_StatusForwarding ==
    RouteDone =>
        /\ Len(rresp) = 1
        /\ rresp[1].status \in {200, 201} => AnsweredAsExpected
        /\ (ranswer # None /\ ~AnsweredAsExpected) =>
            rresp = <<Json(500, "Internal server error")>>
        /\ ~(Required(rreq.route) \subseteq rreq.fields) =>
            /\ rresp[1].status = 400
            /\ rcalls = <<>>
            /\ ranswer = None
        /\ Required(rreq.route) \subseteq rreq.fields => Len(rcalls) = 1

\* a file deletion the project service answered 200, not 204, was answered 500
C24_Witness ==
    /\ RouteDone
    /\ rreq.route = "DELETE /project_files/:fileId"
    /\ ranswer # None
    /\ ranswer.kind = "response"
    /\ ranswer.status = 200
    /\ rresp = <<Json(500, "Internal server error")>>

(***************************************************************************)
(* POST /project/created: the notification handler, getUserEmail and       *)
(* sendEmail, with the user service and the mail gateway that answer them. *)
(***************************************************************************)
Addresses == {"ann@example.org", "bob@example.org"}

\* the userId of a notification: a user the user service holds, or one it does not
NotifyUserIds == UserIds \cup {9}

ProjectIds == {1, 2}

Subject == "Your Project Was Successfully Created!"

\* getUserEmail returning whatever email the response carries
getUserEmailAcceptsEmpty(response) ==
    IF response.kind = "rejected" THEN Throw("Failed to fetch user email.")
    ELSE IF response.data # None THEN Return(response.data.email)
    ELSE Throw("Failed to fetch user email.")

\* getUserEmail, once its axios.get has settled with response
getUserEmail(response) ==
    IF response.kind = "rejected" THEN Throw("Failed to fetch user email.")
    ELSE IF response.data # None /\ response.data.email # ""
    THEN Return(response.data.email)
    ELSE Throw("Failed to fetch user email.")

\* sendEmail, once its axios.post has settled with response
sendEmail(response) ==
    IF response.kind = "rejected" THEN Throw("Failed to send email.")
    ELSE Return("undefined")

\* res.status(500).json({message: "Failed to send email.", error: error.message})
MailFailed(error) ==
    [kind |-> "json", status |-> 500, message |-> "Failed to send email.",
     error |-> error]

MailSent == [kind |-> "json", status |-> 200, message |-> "Email sent successfully."]

InitMail ==
    /\ emails \in [UserIds -> Addresses \cup {""}]
    /\ mreq = None
    /\ mpc = "idle"
    /\ mcalls = <<>>
    /\ mresp = <<>>
    /\ TreeIdle
    /\ ListIdle
    /\ PageIdle
    /\ LinkIdle
    /\ AppIdle
    /\ TwoIdle
    /\ LoginIdle
    /\ RouteIdle

mailRest ==
    <<treeVars, listVars, pageVars, linkVars, appVars, twoVars, loginVars, routeVars>>

\* the handler is entered and awaits getUserEmail(userId)
NotifyArrives(projectId, uid) ==
    /\ mpc = "idle"
    /\ mreq' = [projectId |-> projectId, userId |-> uid]
    /\ mcalls' = Append(mcalls, [call |-> "getUserEmail", arg |-> uid,
                                 outcome |-> "pending"])
    /\ mpc' = "getting"
    /\ UNCHANGED <<emails, mresp, mailRest>>

\* getUserEmail has settled with result: the handler goes on to sendEmail or
\* its catch answers 500
NotifyAfterEmail(result) ==
    /\ IF result.kind = "return"
       THEN /\ mcalls' = Append([mcalls EXCEPT ![Len(mcalls)].outcome = "returned"],
                            [call |-> "sendEmail", arg |-> result.value,
                             subject |-> Subject, projectId |-> mreq.projectId,
                             outcome |-> "pending"])
            /\ mpc' = "sending"
            /\ mresp' = mresp
       ELSE /\ mcalls' = [mcalls EXCEPT ![Len(mcalls)].outcome = "threw"]
            /\ mpc' = "done"
            /\ mresp' = Append(mresp, MailFailed(result.message))
    /\ UNCHANGED <<emails, mreq, mailRest>>

\* the user service answers GET /users/:userId for a user it holds
UserEmailAnswers ==
    /\ mpc = "getting"
    /\ mreq.userId \in DOMAIN emails
    /\ NotifyAfterEmail(getUserEmail([kind |-> "response",
                                      data |-> [email |-> emails[mreq.userId]]]))

\* the user service answers with an empty body
UserEmailAnswersEmpty ==
    /\ mpc = "getting"
    /\ NotifyAfterEmail(getUserEmail([kind |-> "response", data |-> None]))

\* the user service answers with a non-2xx status (as it does for a user it does
\* not hold) or cannot be reached
UserEmailRejects ==
    /\ mpc = "getting"
    /\ NotifyAfterEmail(getUserEmail([kind |-> "rejected"]))

\* sendEmail has settled with result: 200, or the catch answers 500
NotifyAfterSend(result) ==
    /\ mcalls' = [mcalls EXCEPT ![Len(mcalls)].outcome =
                    IF result.kind = "return" THEN "returned" ELSE "threw"]
    /\ mresp' = Append(mresp, IF result.kind = "return" THEN MailSent
                              ELSE MailFailed(result.message))
    /\ mpc' = "done"
    /\ UNCHANGED <<emails, mreq, mailRest>>

\* the mail gateway accepts the POST
GatewayAnswers ==
    /\ mpc = "sending"
    /\ NotifyAfterSend(sendEmail([kind |-> "response"]))

\* the mail gateway answers with a non-2xx status or cannot be reached
GatewayRejects ==
    /\ mpc = "sending"
    /\ NotifyAfterSend(sendEmail([kind |-> "rejected"]))

NextMail ==
    \/ \E projectId \in ProjectIds, uid \in NotifyUserIds : NotifyArrives(projectId, uid)
    \/ UserEmailAnswers
    \/ UserEmailAnswersEmpty
    \/ UserEmailRejects
    \/ GatewayAnswers
    \/ GatewayRejects

SpecMail == InitMail /\ [][NextMail]_vars

SendCalls == {k \in DOMAIN mcalls : mcalls[k].call = "sendEmail"}

\* the user service holds a non-empty email for the user of the notification
HasEmail == mreq.userId \in DOMAIN emails /\ emails[mreq.userId] # ""

(***************************************************************************)
(* C25: sendEmail is invoked only after getUserEmail returned a non-empty  *)
(* email for the given userId, and with that email as recipient; if        *)
(* getUserEmail fails, sendEmail is never invoked and the response is 500; *)
(* the response is 200 'Email sent successfully.' only if sendEmail        *)
(* completed without error.                                                *)
(***************************************************************************)
C25_EmailOnlyAfterAddress ==
    /\ Cardinality(SendCalls) <= 1
    /\ \A k \in SendCalls :
        /\ k = 2
        /\ mcalls[1] = [call |-> "getUserEmail", arg |-> mreq.userId,
                        outcome |-> "returned"]
        /\ HasEmail
        /\ mcalls[k].arg = emails[mreq.userId]
    /\ (mcalls # <<>> /\ mcalls[1].outcome = "threw") =>
        /\ SendCalls = {}
        /\ mpc = "done"
        /\ Len(mresp) = 1
        /\ mresp[1].status = 500
    /\ (mreq # None /\ mpc = "done" /\ ~HasEmail) => SendCalls = {}
    /\ \A k \in DOMAIN mresp :
        mresp[k].status = 200 =>
            /\ mresp = <<MailSent>>
            /\ SendCalls # {}
            /\ mcalls[Len(mcalls)].outcome = "returned"

\* a notification whose email was found and sent, and was answered 200, while
\* the other user has no email
C25_Witness ==
    /\ mpc = "done"
    /\ mresp = <<MailSent>>
    /\ Cardinality(SendCalls) = 1
    /\ mcalls[2].arg \in Addresses
    /\ \E u \in DOMAIN emails : emails[u] = ""

====
